---- MODULE Spec2Model ----
(***************************************************************************)
(* Model of src/src/main.rs: the BLE time-sync run of `main` and the       *)
(* payload encoder of `set_current_time`.                                  *)
(*                                                                         *)
(* The program is one sequential async task.  Every `.await` on the BLE    *)
(* library is one action; the library's answer (Ok/Err and the value) is   *)
(* chosen nondeterministically.  `pc` is the position of the task.         *)
(* `trace` is a history variable: the operations issued on the peripheral  *)
(* of the current iteration of the loop of line 44, each with the source   *)
(* line of the call and the library's answer.                              *)
(***************************************************************************)
EXTENDS Integers, Sequences, FiniteSets, TLC

VARIABLES
    pc,            \* position of the task: the next await / loop header
    status,        \* "running", "ok" (line 147), "err" (a `?`), "panic"
    filter,        \* PERIPHERAL_NAME_MATCH_FILTER (line 16)
    nAdapters,     \* adapter_list.len() (line 26)
    ai,            \* adapters taken from adapter_list.iter() so far (line 31)
    nPeripherals,  \* peripherals.len() (line 38)
    pi,            \* peripherals taken from peripherals.iter() so far (line 44)
    properties,    \* `properties` (line 45): Option<PeripheralProperties>
    is_connected,  \* `is_connected` (lines 46 and 65)
    local_name,    \* `local_name` (line 47)
    chars,         \* peripheral.characteristics() (line 73)
    ci,            \* characteristics taken from the loop of line 73 so far
    now,           \* `now` of set_current_time (line 155)
    data,          \* `data` of set_current_time (line 167)
    trace,         \* history: operations issued on the current peripheral
    cause,         \* history: the operation whose failure ended the run
    scans,         \* history: the ScanFilter of every start_scan issued
    unclosed       \* history: the connect of a peripheral of an earlier
                   \* iteration answered Ok and its disconnect has not

vars == <<pc, status, filter, nAdapters, ai, nPeripherals, pi, properties,
          is_connected, local_name, chars, ci, now, data, trace, cause,
          scans, unclosed>>

-----------------------------------------------------------------------------
(* Bounds of the model *)

MaxAdapters == 2
MaxPeripherals == 2
MaxChars == 2

-----------------------------------------------------------------------------
(* Strings are sequences of characters, so that `contains` is computed *)

PERIPHERAL_NAME_MATCH_FILTER ==
    <<"A", "m", "a", "z", "f", "i", "t", " ", "G", "T", "S", " ", "4", " ",
      "M", "i", "n", "i">>

NAME_UNKNOWN ==
    <<"(", "p", "e", "r", "i", "p", "h", "e", "r", "a", "l", " ", "n", "a",
      "m", "e", " ", "u", "n", "k", "n", "o", "w", "n", ")">>

TIME_CHARACTERISTIC_UUID == "00002a2b-0000-1000-8000-00805f9b34fb"
NOTIFY_CHARACTERISTIC_UUID == "6e400002-b534-f393-67a9-e50e24dcca9e"

\* Option<String>
None == [some |-> FALSE, v |-> <<>>]
Some(s) == [some |-> TRUE, v |-> s]

\* Option::unwrap_or (line 50)
unwrap_or(opt, default) == IF opt.some THEN opt.v ELSE default

\* str::contains (line 56): pat occurs in s as a contiguous subsequence
contains(s, pat) ==
    \E i \in 0..(Len(s) - Len(pat)) :
        \A k \in 1..Len(pat) : s[i + k] = pat[k]

-----------------------------------------------------------------------------
(* What the BLE library may answer *)

\* advertised local names a scan may report
AdvertisedNames ==
    { None,
      Some(<<"A", "m", "a", "z", "f", "i", "t", " ", "G", "T", "S", " ", "4",
             " ", "M", "i", "n", "i", " ", "P", "r", "o">>),
      Some(<<"A", "m", "a", "z", "f", "i", "t", " ", "G", "T", "S", " ", "4">>),
      Some(<<"a", "m", "a", "z", "f", "i", "t", " ", "g", "t", "s", " ", "4",
             " ", "m", "i", "n", "i">>) }

\* Option<PeripheralProperties>: properties() may answer Ok(None)
NoProperties == [some |-> FALSE, local_name |-> None]
PropertiesAnswers ==
    {NoProperties} \cup {[some |-> TRUE, local_name |-> n] : n \in AdvertisedNames}

\* CharPropFlags of a discovered characteristic
CharPropFlags == {{}, {"READ"}, {"READ", "WRITE"}}

Characteristic ==
    [uuid : {TIME_CHARACTERISTIC_UUID, NOTIFY_CHARACTERISTIC_UUID},
     properties : CharPropFlags]

\* the snapshots peripheral.characteristics() may return
CharacteristicLists ==
    UNION {[1..n -> Characteristic] : n \in 0..MaxChars}

\* the instants Utc::now() may return
Instants ==
    { [year |-> 2024, month |-> 1,  day |-> 7,  hour |-> 0,  minute |-> 0,  second |-> 0],
      [year |-> 2026, month |-> 11, day |-> 7,  hour |-> 23, minute |-> 59, second |-> 59] }

-----------------------------------------------------------------------------
(* set_current_time: the payload (lines 155-179) *)

\* chrono: days from 1970-01-01 to the civil date y-m-d
DaysFromCivil(y, m, d) ==
    LET yy  == IF m <= 2 THEN y - 1 ELSE y
        era == yy \div 400
        yoe == yy - era * 400
        mp  == (m + 9) % 12
        doy == (153 * mp + 2) \div 5 + d - 1
        doe == yoe * 365 + yoe \div 4 - yoe \div 100 + doy
    IN  era * 146097 + doe - 719468

num_days_from_sunday_oneBased(instant) ==
    ((DaysFromCivil(instant.year, instant.month, instant.day) + 4) % 7) + 1

\* now.weekday().num_days_from_sunday() (line 162); 1970-01-01 was a Thursday
num_days_from_sunday(instant) ==
    (DaysFromCivil(instant.year, instant.month, instant.day) + 4) % 7

\* `as u16`, `as u8`
AsU16(x) == x % 65536
AsU8(x) == x % 256

TimePayload_bigEndianYear(instant) ==
    << (AsU16(instant.year) \div 256) % 256, AsU16(instant.year) % 256,
       AsU8(instant.month), AsU8(instant.day), AsU8(instant.hour),
       AsU8(instant.minute), AsU8(instant.second),
       AsU8((DaysFromCivil(instant.year, instant.month, instant.day) + 4) % 7),
       0, 0, 1 >>

TimePayload_noReserved(instant) ==
    << AsU16(instant.year) % 256, (AsU16(instant.year) \div 256) % 256,
       AsU8(instant.month), AsU8(instant.day), AsU8(instant.hour), AsU8(instant.minute),
       AsU8(instant.second), AsU8(num_days_from_sunday(instant)), 0, 1 >>

\* the array `data` of lines 167-179
TimePayload(instant) ==
    LET year == AsU16(instant.year)
        day_of_week == AsU8(num_days_from_sunday(instant))
        fractions == 0
        adjust_reason == 1
    IN  << year % 256,
           (year \div 256) % 256,
           AsU8(instant.month),
           AsU8(instant.day),
           AsU8(instant.hour),
           AsU8(instant.minute),
           AsU8(instant.second),
           day_of_week,
           fractions,
           0,
           adjust_reason >>

-----------------------------------------------------------------------------
(* The conditions of main *)

NameMatches_any(name, f) == TRUE

\* line 56: local_name.contains(PERIPHERAL_NAME_MATCH_FILTER)
NameMatches(name, f) == contains(name, f)

\* lines 47-50: the string the test of line 56 is applied to
LocalNameOf(props) == unwrap_or(props.local_name, NAME_UNKNOWN)

ShouldRead_anyUuid(c) == "READ" \in c.properties

\* lines 77-78 and 113-114
ShouldRead(c) == "READ" \in c.properties /\ c.uuid = TIME_CHARACTERISTIC_UUID

ShouldWrite_anyUuid(c) == TRUE

ShouldWrite_ifWritable(c) ==
    c.uuid = TIME_CHARACTERISTIC_UUID /\ "WRITE" \in c.properties

\* line 87
ShouldWrite(c) == c.uuid = TIME_CHARACTERISTIC_UUID

-----------------------------------------------------------------------------
(* History *)

\* one operation issued on the current peripheral: the call, the source line
\* of the call, the characteristic it addresses (0: none), whether the library
\* answered Ok, and the value passed or returned as a sequence of numbers
Op(op, line, ch, ok, val) ==
    [op |-> op, line |-> line, ch |-> ch, ok |-> ok, val |-> val]

BoolVal(b) == IF b THEN <<1>> ELSE <<0>>

\* the `?` operator on an Err, and a panic: the run ends there
Abort(op, how) ==
    /\ pc' = "done"
    /\ status' = how
    /\ cause' = op

\* the current characteristic of the loop of line 73
characteristic == chars[ci]

\* `now` before line 155 has run
NoInstant ==
    [year |-> 0, month |-> 0, day |-> 0, hour |-> 0, minute |-> 0, second |-> 0]

\* ScanFilter::default() (line 34): no service UUID to filter on
ScanFilterDefault == [services |-> {}]

InitRun ==
    /\ pc = "new"
    /\ status = "running"
    /\ nAdapters = 0
    /\ ai = 0
    /\ nPeripherals = 0
    /\ pi = 0
    /\ properties = NoProperties
    /\ is_connected = FALSE
    /\ local_name = <<>>
    /\ chars = <<>>
    /\ ci = 0
    /\ now = NoInstant
    /\ data = <<>>
    /\ trace = <<>>
    /\ cause = "none"
    /\ scans = <<>>
    /\ unclosed = FALSE

Init ==
    /\ filter = PERIPHERAL_NAME_MATCH_FILTER
    /\ InitRun

\* other values the constant of line 16 can be given
Filters ==
    { PERIPHERAL_NAME_MATCH_FILTER,
      <<"G", "T", "S">>,
      <<"u", "n", "k", "n", "o", "w", "n">> }

InitAnyFilter ==
    /\ filter \in Filters
    /\ InitRun

-----------------------------------------------------------------------------
(* main, lines 25-148 *)

HasNext_inclusive(taken, len) == taken <= len

\* lines 31 and 44: the iterator of a `for` loop has another element
HasNext(taken, len) == taken < len

\* line 25: Manager::new().await?
ManagerNew ==
    /\ pc = "new"
    /\ \/ /\ pc' = "adapters"
          /\ UNCHANGED <<status, cause>>
       \/ Abort("new", "err")
    /\ UNCHANGED <<now, data, scans, unclosed,
                   filter, nAdapters, ai, nPeripherals, pi, properties,
                   is_connected, local_name, chars, ci, trace>>

\* lines 26-29: manager.adapters().await?
Adapters ==
    /\ pc = "adapters"
    /\ \/ /\ \E n \in 0..MaxAdapters : nAdapters' = n
          /\ pc' = "for_adapter"
          /\ UNCHANGED <<status, cause>>
       \/ /\ Abort("adapters", "err")
          /\ UNCHANGED nAdapters
    /\ UNCHANGED <<now, data, scans, unclosed,
                   filter, ai, nPeripherals, pi, properties, is_connected,
                   local_name, chars, ci, trace>>

\* line 31: for adapter in adapter_list.iter(); line 147: Ok(())
ForAdapter ==
    /\ pc = "for_adapter"
    /\ \/ /\ HasNext(ai, nAdapters)
          /\ ai' = ai + 1
          /\ pc' = "start_scan"
          /\ UNCHANGED status
       \/ /\ ~HasNext(ai, nAdapters)
          /\ pc' = "done"
          /\ status' = "ok"
          /\ UNCHANGED ai
    /\ UNCHANGED <<now, data, scans, unclosed,
                   filter, nAdapters, nPeripherals, pi, properties,
                   is_connected, local_name, chars, ci, trace, cause>>

\* lines 33-37: start_scan(ScanFilter::default()).await.expect(..), sleep
StartScan ==
    /\ pc = "start_scan"
    /\ scans' = Append(scans, ScanFilterDefault)
    /\ \/ /\ pc' = "peripherals"
          /\ UNCHANGED <<status, cause>>
       \/ Abort("start_scan", "panic")
    /\ UNCHANGED <<now, data, unclosed,
                   filter, nAdapters, ai, nPeripherals, pi, properties,
                   is_connected, local_name, chars, ci, trace>>

\* lines 38-42: adapter.peripherals().await?
Peripherals ==
    /\ pc = "peripherals"
    /\ \/ /\ \E n \in 0..MaxPeripherals : nPeripherals' = n
          /\ pi' = 0
          /\ pc' = "for_peripheral"
          /\ UNCHANGED <<status, cause>>
       \/ /\ Abort("peripherals", "err")
          /\ UNCHANGED <<nPeripherals, pi>>
    /\ UNCHANGED <<now, data, scans, unclosed,
                   filter, nAdapters, ai, properties, is_connected,
                   local_name, chars, ci, trace>>

\* the connect of the current peripheral answered Ok and no disconnect of
\* it has answered Ok
SessionOpen ==
    /\ \E i \in 1..Len(trace) : trace[i].op = "connect" /\ trace[i].ok
    /\ ~\E i \in 1..Len(trace) : trace[i].op = "disconnect" /\ trace[i].ok

\* line 44: for peripheral in peripherals.iter()
ForPeripheral ==
    /\ pc = "for_peripheral"
    /\ \/ /\ HasNext(pi, nPeripherals)
          /\ pi' = pi + 1
          /\ pc' = "properties"
          /\ properties' = NoProperties
          /\ is_connected' = FALSE
          /\ local_name' = <<>>
          /\ chars' = <<>>
          /\ ci' = 0
          /\ now' = NoInstant
          /\ data' = <<>>
          /\ trace' = <<>>
          /\ unclosed' = (unclosed \/ SessionOpen)
       \/ /\ ~HasNext(pi, nPeripherals)
          /\ pc' = "for_adapter"
          /\ UNCHANGED <<pi, properties, is_connected, local_name, chars, ci,
                         now, data, trace, unclosed>>
    /\ UNCHANGED <<status, filter, nAdapters, ai, nPeripherals, cause, scans>>

\* line 45: peripheral.properties().await?
Properties ==
    /\ pc = "properties"
    /\ \/ /\ \E p \in PropertiesAnswers : properties' = p
          /\ trace' = Append(trace, Op("properties", 45, 0, TRUE, <<>>))
          /\ pc' = "is_connected"
          /\ UNCHANGED <<status, cause>>
       \/ /\ Abort("properties", "err")
          /\ trace' = Append(trace, Op("properties", 45, 0, FALSE, <<>>))
          /\ UNCHANGED properties
    /\ UNCHANGED <<now, data, scans, unclosed,
                   filter, nAdapters, ai, nPeripherals, pi, is_connected,
                   local_name, chars, ci>>

AfterMatch_alwaysConnect(connected) == "connect"

\* line 58: if !is_connected
AfterMatch(connected) == IF ~connected THEN "connect" ELSE "recheck"

\* lines 46-58: peripheral.is_connected().await?, properties.unwrap(),
\* the name test and the test of the connection state
IsConnected ==
    /\ pc = "is_connected"
    /\ \/ /\ \E b \in BOOLEAN :
                /\ is_connected' = b
                /\ trace' = Append(trace, Op("is_connected", 46, 0, TRUE, BoolVal(b)))
                /\ IF ~properties.some
                   THEN /\ Abort("unwrap", "panic")
                        /\ UNCHANGED local_name
                   ELSE /\ local_name' = LocalNameOf(properties)
                        /\ pc' = IF NameMatches(LocalNameOf(properties), filter)
                                 THEN AfterMatch(b)
                                 ELSE "for_peripheral"
                        /\ UNCHANGED <<status, cause>>
       \/ /\ Abort("is_connected", "err")
          /\ trace' = Append(trace, Op("is_connected", 46, 0, FALSE, <<>>))
          /\ UNCHANGED <<is_connected, local_name>>
    /\ UNCHANGED <<now, data, scans, unclosed,
                   filter, nAdapters, ai, nPeripherals, pi, properties,
                   chars, ci>>

AfterConnectErr_fallThrough == "recheck"

\* line 62: `continue` after a failed connect
AfterConnectErr == "for_peripheral"

\* lines 60-64: peripheral.connect().await
Connect ==
    /\ pc = "connect"
    /\ \/ /\ trace' = Append(trace, Op("connect", 60, 0, TRUE, <<>>))
          /\ pc' = "recheck"
          /\ UNCHANGED cause
       \/ /\ trace' = Append(trace, Op("connect", 60, 0, FALSE, <<>>))
          /\ pc' = AfterConnectErr
          /\ UNCHANGED cause
    /\ UNCHANGED <<now, data, scans, unclosed,
                   status, filter, nAdapters, ai, nPeripherals, pi,
                   properties, is_connected, local_name, chars, ci>>

AfterRecheck_always(connected) == "discover_services"

\* line 70: if is_connected
AfterRecheck(connected) ==
    IF connected THEN "discover_services" ELSE "for_peripheral"

\* lines 65-70: the second peripheral.is_connected().await?
Recheck ==
    /\ pc = "recheck"
    /\ \/ /\ \E b \in BOOLEAN :
                /\ is_connected' = b
                /\ trace' = Append(trace, Op("is_connected", 65, 0, TRUE, BoolVal(b)))
                /\ pc' = AfterRecheck(b)
          /\ UNCHANGED <<status, cause>>
       \/ /\ Abort("is_connected", "err")
          /\ trace' = Append(trace, Op("is_connected", 65, 0, FALSE, <<>>))
          /\ UNCHANGED is_connected
    /\ UNCHANGED <<now, data, scans, unclosed,
                   filter, nAdapters, ai, nPeripherals, pi, properties,
                   local_name, chars, ci>>

\* lines 72-73: peripheral.discover_services().await?, characteristics()
DiscoverServices ==
    /\ pc = "discover_services"
    /\ \/ /\ \E cs \in CharacteristicLists : chars' = cs
          /\ ci' = 0
          /\ trace' = Append(trace, Op("discover_services", 72, 0, TRUE, <<>>))
          /\ pc' = "for_characteristic"
          /\ UNCHANGED <<status, cause>>
       \/ /\ Abort("discover_services", "err")
          /\ trace' = Append(trace, Op("discover_services", 72, 0, FALSE, <<>>))
          /\ UNCHANGED <<chars, ci>>
    /\ UNCHANGED <<now, data, scans, unclosed,
                   filter, nAdapters, ai, nPeripherals, pi, properties,
                   is_connected, local_name>>

AfterWriteStep_noSecondRead(c) == "for_characteristic"

\* lines 113-114: where the body of the loop goes after the test of line 87
AfterWriteStep(c) ==
    IF ShouldRead(c) THEN "read_after" ELSE "for_characteristic"

\* line 87: where the body of the loop goes after the test of line 77
AfterReadStep(c) ==
    IF ShouldWrite(c) THEN "write" ELSE AfterWriteStep(c)

\* lines 73-79: for characteristic in peripheral.characteristics()
ForCharacteristic ==
    /\ pc = "for_characteristic"
    /\ \/ /\ ci < Len(chars)
          /\ ci' = ci + 1
          /\ pc' = IF ShouldRead(chars[ci + 1])
                   THEN "read_before"
                   ELSE AfterReadStep(chars[ci + 1])
       \/ /\ ci >= Len(chars)
          /\ pc' = "disconnect"
          /\ UNCHANGED ci
    /\ UNCHANGED <<now, data, scans, unclosed,
                   status, filter, nAdapters, ai, nPeripherals, pi,
                   properties, is_connected, local_name, chars, trace,
                   cause>>

\* lines 80-86: peripheral.read(&characteristic).await?
ReadBefore ==
    /\ pc = "read_before"
    /\ \/ /\ trace' = Append(trace, Op("read", 81, ci, TRUE, <<>>))
          /\ pc' = AfterReadStep(characteristic)
          /\ UNCHANGED <<status, cause>>
       \/ /\ Abort("read", "err")
          /\ trace' = Append(trace, Op("read", 81, ci, FALSE, <<>>))
    /\ UNCHANGED <<now, data, scans, unclosed,
                   filter, nAdapters, ai, nPeripherals, pi, properties,
                   is_connected, local_name, chars, ci>>

set_current_time_propagating(write_ok) == write_ok

\* lines 184-192: the Result of set_current_time, TRUE for Ok(()), given
\* whether peripheral.write answered Ok
set_current_time(write_ok) == TRUE

\* line 88: set_current_time(peripheral, &characteristic).await?
\* with lines 150-193: Utc::now(), the payload and peripheral.write
Write ==
    /\ pc = "write"
    /\ \E instant \in Instants, write_ok \in BOOLEAN :
          /\ now' = instant
          /\ data' = TimePayload(instant)
          /\ trace' = Append(trace, Op("write", 185, ci, write_ok, TimePayload(instant)))
          /\ IF set_current_time(write_ok)
             THEN /\ pc' = AfterWriteStep(characteristic)
                  /\ UNCHANGED <<status, cause>>
             ELSE Abort("write", "err")
    /\ UNCHANGED <<scans, unclosed,
                   filter, nAdapters, ai, nPeripherals, pi, properties,
                   is_connected, local_name, chars, ci>>

\* lines 116-121: the second peripheral.read(&characteristic).await?
ReadAfter ==
    /\ pc = "read_after"
    /\ \/ /\ trace' = Append(trace, Op("read", 117, ci, TRUE, <<>>))
          /\ pc' = "for_characteristic"
          /\ UNCHANGED <<status, cause>>
       \/ /\ Abort("read", "err")
          /\ trace' = Append(trace, Op("read", 117, ci, FALSE, <<>>))
    /\ UNCHANGED <<now, data, scans, unclosed,
                   filter, nAdapters, ai, nPeripherals, pi, properties,
                   is_connected, local_name, chars, ci>>

\* lines 140-141: peripheral.disconnect().await?
Disconnect ==
    /\ pc = "disconnect"
    /\ \/ /\ trace' = Append(trace, Op("disconnect", 141, 0, TRUE, <<>>))
          /\ pc' = "for_peripheral"
          /\ UNCHANGED <<status, cause>>
       \/ /\ Abort("disconnect", "err")
          /\ trace' = Append(trace, Op("disconnect", 141, 0, FALSE, <<>>))
    /\ UNCHANGED <<now, data, scans, unclosed,
                   filter, nAdapters, ai, nPeripherals, pi, properties,
                   is_connected, local_name, chars, ci>>

Next ==
    \/ ManagerNew
    \/ Adapters
    \/ ForAdapter
    \/ StartScan
    \/ Peripherals
    \/ ForPeripheral
    \/ Properties
    \/ IsConnected
    \/ Connect
    \/ Recheck
    \/ DiscoverServices
    \/ ForCharacteristic
    \/ ReadBefore
    \/ Write
    \/ ReadAfter
    \/ Disconnect

Spec == Init /\ [][Next]_vars

-----------------------------------------------------------------------------
(* set_current_time alone: the payload of any calendar instant *)

IsLeapYear(y) == y % 4 = 0 /\ (y % 100 # 0 \/ y % 400 = 0)

DaysInMonth(y, m) ==
    IF m = 2 THEN (IF IsLeapYear(y) THEN 29 ELSE 28)
    ELSE IF m \in {4, 6, 9, 11} THEN 30 ELSE 31

\* calendar instants chrono can represent (its years run from -262143 to
\* 262142), among them the instants of the run
EncoderInstants ==
    Instants \cup
    { i \in [year : {0, 1970, 2000, 2024, 2026, 65535, 65536, 70000},
             month : {1, 2, 12},
             day : {1, 7, 29, 31},
             hour : {0, 23},
             minute : {0, 59},
             second : {0, 59}] :
        i.day <= DaysInMonth(i.year, i.month) }

InitEncode ==
    /\ filter = PERIPHERAL_NAME_MATCH_FILTER
    /\ pc = "set_current_time"
    /\ status = "running"
    /\ nAdapters = 0
    /\ ai = 0
    /\ nPeripherals = 0
    /\ pi = 0
    /\ properties = NoProperties
    /\ is_connected = FALSE
    /\ local_name = <<>>
    /\ chars = <<>>
    /\ ci = 0
    /\ now \in EncoderInstants
    /\ data = <<>>
    /\ trace = <<>>
    /\ cause = "none"
    /\ scans = <<>>
    /\ unclosed = FALSE

\* lines 156-179: the fields of `now` and the array `data`
BuildData ==
    /\ pc = "set_current_time"
    /\ data' = TimePayload(now)
    /\ pc' = "encoded"
    /\ UNCHANGED <<status, filter, nAdapters, ai, nPeripherals, pi,
                   properties, is_connected, local_name, chars, ci, now,
                   trace, cause, scans, unclosed>>

SpecEncode == InitEncode /\ [][BuildData]_vars

\* the run for any value of the name filter
SpecAnyFilter == InitAnyFilter /\ [][Next]_vars

-----------------------------------------------------------------------------
(* Reading the history *)

TypeOK ==
    /\ pc \in {"new", "adapters", "for_adapter", "start_scan", "peripherals",
               "for_peripheral", "properties", "is_connected", "connect",
               "recheck", "discover_services", "for_characteristic",
               "read_before", "write", "read_after", "disconnect", "done"}
    /\ status \in {"running", "ok", "err", "panic"}
    /\ (pc = "done") <=> (status # "running")
    /\ (cause = "none") <=> (status \in {"running", "ok"})
    /\ ai \in 0..nAdapters /\ nAdapters \in 0..MaxAdapters
    /\ pi \in 0..nPeripherals /\ nPeripherals \in 0..MaxPeripherals
    /\ ci \in 0..Len(chars) /\ Len(chars) <= MaxChars

Aborted == status \in {"err", "panic"}

Last(t) == t[Len(t)]

\* some operation `op` was issued on the current peripheral
Issued(op) == \E i \in 1..Len(trace) : trace[i].op = op

\* the re-check of line 65 was issued on the current peripheral
RecheckIssued ==
    \E i \in 1..Len(trace) : trace[i].op = "is_connected" /\ trace[i].line = 65

\* the current peripheral passed the name test of line 56
Matched ==
    /\ Len(trace) >= 2
    /\ trace[2].ok
    /\ properties.some
    /\ NameMatches(LocalNameOf(properties), filter)

\* a connection to the current peripheral was established in this run
Established ==
    \/ \E i \in 1..Len(trace) : trace[i].op = "connect" /\ trace[i].ok
    \/ Matched /\ trace[2].val = <<1>>

\* the task is inside the body of the loop of line 44
InIteration ==
    pc \in {"properties", "is_connected", "connect", "recheck",
            "discover_services", "for_characteristic", "read_before",
            "write", "read_after", "disconnect"}

\* the iteration of the current peripheral is over (or the run is)
IterationOver == ~InIteration /\ trace # <<>>

\* the names of the operations of `ops` in the trace, in order
Project(ops) ==
    LET sel == SelectSeq(trace, LAMBDA e : e.op \in ops)
    IN  [i \in 1..Len(sel) |-> sel[i].op]

-----------------------------------------------------------------------------
(* Claims *)

\* C1: a write is only issued after the re-check of line 65 returned
\* connected in this iteration, after discovery completed, and on a
\* discovered characteristic whose UUID is the time-characteristic UUID.
C1_WriteOnlyWhenConnectedDiscoveredTimeChar ==
    /\ \A i \in 1..Len(trace) :
          trace[i].op = "write" =>
             /\ \E j \in 1..(i - 1) :
                   /\ trace[j] = Op("is_connected", 65, 0, TRUE, <<1>>)
                   /\ \E k \in (j + 1)..(i - 1) :
                         trace[k] = Op("discover_services", 72, 0, TRUE, <<>>)
             /\ trace[i].ch \in 1..Len(chars)
             /\ chars[trace[i].ch].uuid = TIME_CHARACTERISTIC_UUID
    /\ pc = "write" =>
          /\ is_connected
          /\ Issued("discover_services")
          /\ ci \in 1..Len(chars)
          /\ chars[ci].uuid = TIME_CHARACTERISTIC_UUID

C1_Witness ==
    /\ Issued("write")
    /\ Len(chars) = 2
    /\ chars[1].uuid = NOTIFY_CHARACTERISTIC_UUID
    /\ Last(trace).op = "write"
    /\ Last(trace).ch = 2

\* C2: once a connection to a matched peripheral was established (connect
\* succeeded, or it was already connected), a disconnect is issued for it
\* before its iteration and the run end, whatever happens in between.
C2_DisconnectAlwaysIssued ==
    (IterationOver /\ Established) => Issued("disconnect")

\* C3: a rejected scan start abandons only that adapter: it never ends
\* the run.
C3_ScanStartFailureDoesNotAbort ==
    ~(Aborted /\ cause = "start_scan")

\* C4: a failed read of the time characteristic (line 81 or line 117) is
\* logged and processing continues: it never ends the run.
C4_ReadFailureDoesNotAbort ==
    \A i \in 1..Len(trace) :
        (trace[i].op = "read" /\ ~trace[i].ok) => ~Aborted

\* C5: a failed write never ends the run: set_current_time returns Ok in
\* both cases, the body of the loop goes on after it, and unless a later
\* operation fails the peripheral is disconnected and the run goes on.
C5_WriteFailureDoesNotAbort ==
    /\ cause # "write"
    /\ \A i \in 1..Len(trace) :
          (trace[i].op = "write" /\ ~trace[i].ok) =>
             /\ i = Len(trace) =>
                   /\ status = "running"
                   /\ pc \in {"read_after", "for_characteristic",
                              "read_before", "write", "disconnect"}
             /\ IterationOver =>
                   \/ Last(trace) = Op("disconnect", 141, 0, TRUE, <<>>)
                      /\ cause \notin {"read", "write", "disconnect"}
                   \/ ~Last(trace).ok /\ Last(trace).op \in {"read", "disconnect"}
                      /\ cause = Last(trace).op

C5_Witness ==
    /\ Len(trace) >= 2
    /\ Len(chars) = 2
    /\ \E i \in 1..(Len(trace) - 2) :
          trace[i].op = "write" /\ ~trace[i].ok /\ trace[i].ch = 1
    /\ trace[Len(trace) - 1].op = "write"
    /\ trace[Len(trace) - 1].ch = 2
    /\ Last(trace) = Op("disconnect", 141, 0, TRUE, <<>>)
    /\ pc = "for_peripheral"
    /\ pi < nPeripherals

\* C6: after a failed connect no re-check, discovery, read, write or
\* disconnect is issued for that peripheral, the run goes to the next
\* peripheral of the adapter, and the failure does not end the run.
C6_ConnectFailureSkipsPeripheral ==
    /\ cause # "connect"
    /\ \A i \in 1..Len(trace) :
          (trace[i].op = "connect" /\ ~trace[i].ok) =>
             /\ i = Len(trace)
             /\ ~InIteration
             /\ Aborted => cause \in {"start_scan", "peripherals"}

C6_Witness ==
    /\ trace # <<>>
    /\ Last(trace) = Op("connect", 60, 0, FALSE, <<>>)
    /\ pc = "done"
    /\ status = "ok"

\* C7: the run is aborted only if the BLE transport could not be
\* initialized or service discovery failed.
C7_AbortOnlyOnInitOrDiscovery ==
    Aborted => cause \in {"new", "adapters", "discover_services"}

\* C8: for every value of the name filter, a peripheral with no
\* advertised local name never matches: no connect, re-check, discovery,
\* read, write or disconnect is issued for it.
C8_NamelessNeverMatches ==
    (properties.some /\ ~properties.local_name.some) =>
        /\ pc \notin {"connect", "recheck", "discover_services",
                      "for_characteristic", "read_before", "write",
                      "read_after", "disconnect"}
        /\ Len(trace) <= 2

\* the scenario of C9: one adapter, one peripheral, initially
\* disconnected, whose name matches, one time characteristic with READ
\* and WRITE, and every operation answered Ok
C9_Scenario ==
    /\ nAdapters = 1
    /\ nPeripherals = 1
    /\ pi = 1
    /\ Matched
    /\ trace[2].val = <<0>>
    /\ \A i \in 1..Len(trace) : trace[i].ok
    /\ chars = <<[uuid |-> TIME_CHARACTERISTIC_UUID,
                  properties |-> {"READ", "WRITE"}]>>

\* C9: in that scenario the run issues exactly one connect, one discovery,
\* one write of an 11-byte payload and one disconnect, in that order, and
\* ends with success.
C9_EndToEnd ==
    (pc = "done" /\ C9_Scenario) =>
        /\ status = "ok"
        /\ Project({"connect", "discover_services", "write", "disconnect"})
              = <<"connect", "discover_services", "write", "disconnect">>
        /\ \A i \in 1..Len(trace) :
              trace[i].op = "write" => Len(trace[i].val) = 11

C9_Witness ==
    /\ pc = "done"
    /\ C9_Scenario
    /\ status = "ok"
    /\ Issued("write")

\* the current peripheral was discovered and none of its characteristics
\* has the time-characteristic UUID
NoTimeCharacteristic ==
    /\ \E i \in 1..Len(trace) : trace[i].op = "discover_services" /\ trace[i].ok
    /\ \A k \in 1..Len(chars) : chars[k].uuid # TIME_CHARACTERISTIC_UUID

\* C10: when discovery succeeds and no discovered characteristic has the
\* time UUID, no read and no write is issued and a disconnect is issued.
C10_NoTimeCharNoReadWriteStillDisconnect ==
    NoTimeCharacteristic =>
        /\ ~Issued("read")
        /\ ~Issued("write")
        /\ pc \notin {"read_before", "write", "read_after"}
        /\ IterationOver => Issued("disconnect")

C10_Witness ==
    /\ NoTimeCharacteristic
    /\ Len(chars) = 2
    /\ chars[1].properties = {"READ"}
    /\ Issued("disconnect")

\* C11: with an empty adapter list no scan is started and no operation is
\* issued on any peripheral, and the run ends with Ok(()); when an adapter
\* reports zero peripherals the loop of line 44 is not entered, nothing is
\* issued for that adapter and the run goes on to the next adapter (and to
\* Ok(()) after the last one).
C11_NothingToDoEndsWithSuccess ==
    /\ [](nAdapters = 0 =>
             /\ scans = <<>>
             /\ trace = <<>>
             /\ pc \in {"new", "adapters", "for_adapter", "done"}
             /\ (pc = "done" /\ cause \notin {"new", "adapters"}) => status = "ok")
    /\ [](nPeripherals = 0 => ~InIteration)
    /\ [][(pc = "for_peripheral" /\ nPeripherals = 0) =>
             /\ pc' = "for_adapter"
             /\ status' = "running"
             /\ trace' = trace
             /\ unclosed' = unclosed]_vars
    /\ [][(pc = "for_adapter" /\ nPeripherals = 0 /\ ai = nAdapters) =>
             /\ pc' = "done"
             /\ status' = "ok"
             /\ trace' = trace]_vars

C11_Witness ==
    /\ pc = "done"
    /\ status = "ok"
    /\ nAdapters = 2
    /\ Len(scans) = 2
    /\ nPeripherals = 0
    /\ trace = <<>>

\* C12 as stated: for every calendar instant the two year bytes
\* reconstruct the year, byte0 | (byte1 << 8) = year.
C12_YearBytesReconstructYear ==
    pc = "encoded" => data[1] + data[2] * 256 = now.year

\* C12 amended: for every calendar instant whose year is in 0..65535 the
\* two year bytes reconstruct the year, low byte first; for any other year
\* they hold the year modulo 65536.
C12_YearBytesReconstructYearU16 ==
    pc = "encoded" =>
        /\ data[1] \in 0..255
        /\ data[2] \in 0..255
        /\ now.year \in 0..65535 => data[1] + data[2] * 256 = now.year
        /\ (data[1] + data[2] * 256 - now.year) % 65536 = 0

C12_Witness ==
    /\ pc = "encoded"
    /\ now.year = 2026
    /\ data[1] = 234
    /\ data[2] = 7

\* C13: the payload is exactly 11 bytes [year low, year high, month, day,
\* hour, minute, second, day-of-week, 0, 0, 1].
C13_PayloadLayout ==
    pc = "encoded" =>
        /\ Len(data) = 11
        /\ data[1] = (now.year % 65536) % 256
        /\ data[2] = (now.year % 65536) \div 256
        /\ data[3] = now.month
        /\ data[4] = now.day
        /\ data[5] = now.hour
        /\ data[6] = now.minute
        /\ data[7] = now.second
        /\ data[8] \in 0..6
        /\ data[9] = 0
        /\ data[10] = 0
        /\ data[11] = 1

C13_Witness ==
    /\ pc = "encoded"
    /\ data = <<232, 7, 2, 29, 23, 59, 59, 4, 0, 0, 1>>

\* days of the week of known dates, <<year, month, day, days from Sunday>>
KnownWeekdays ==
    {
      <<1970, 1, 1, 4>>, <<1970, 1, 7, 3>>, <<1970, 1, 29, 4>>, <<1970, 1, 31, 6>>,
      <<1970, 2, 1, 0>>, <<1970, 2, 7, 6>>, <<1970, 12, 1, 2>>, <<1970, 12, 7, 1>>,
      <<1970, 12, 29, 2>>, <<1970, 12, 31, 4>>, <<2000, 1, 1, 6>>, <<2000, 1, 7, 5>>,
      <<2000, 1, 29, 6>>, <<2000, 1, 31, 1>>, <<2000, 2, 1, 2>>, <<2000, 2, 7, 1>>,
      <<2000, 2, 29, 2>>, <<2000, 12, 1, 5>>, <<2000, 12, 7, 4>>, <<2000, 12, 29, 5>>,
      <<2000, 12, 31, 0>>, <<2024, 1, 1, 1>>, <<2024, 1, 7, 0>>, <<2024, 1, 29, 1>>,
      <<2024, 1, 31, 3>>, <<2024, 2, 1, 4>>, <<2024, 2, 7, 3>>, <<2024, 2, 29, 4>>,
      <<2024, 12, 1, 0>>, <<2024, 12, 7, 6>>, <<2024, 12, 29, 0>>, <<2024, 12, 31, 2>>,
      <<2026, 1, 1, 4>>, <<2026, 1, 7, 3>>, <<2026, 1, 29, 4>>, <<2026, 1, 31, 6>>,
      <<2026, 2, 1, 0>>, <<2026, 2, 7, 6>>, <<2026, 12, 1, 2>>, <<2026, 12, 7, 1>>,
      <<2026, 12, 29, 2>>, <<2026, 12, 31, 4>>
    }

C15_AtMostOneSession ==
    /\ pc = "connect" => ~unclosed
    /\ ~(unclosed /\ SessionOpen)

\* the operations issued on characteristic k, as <<call, source line>>
OpsOn(k) ==
    LET sel == SelectSeq(trace, LAMBDA e : e.ch = k)
    IN  [i \in 1..Len(sel) |-> <<sel[i].op, sel[i].line>>]

IsPrefix(a, b) ==
    /\ Len(a) <= Len(b)
    /\ \A i \in 1..Len(a) : a[i] = b[i]

\* the operations on characteristic k are next to each other in the trace
\* (the trace enters the operations on k at most once)
Contiguous(k) ==
    Cardinality({i \in 1..Len(trace) :
                    /\ trace[i].ch = k
                    /\ i > 1 => trace[i - 1].ch # k}) <= 1

\* the body of the loop of line 73 is in the middle of characteristic k
InBodyOf(k) == k = ci /\ pc \in {"read_before", "write", "read_after"}

\* the run was ended by a failed read on characteristic k
ReadAbortedOn(k) ==
    /\ Aborted
    /\ cause = "read"
    /\ Last(trace).op = "read"
    /\ Last(trace).ch = k

\* C16: on a discovered characteristic with the time UUID and READ the
\* operations issued are, in order and with nothing in between, the read of
\* line 81, the write, and the read of line 117.
C16_ReadWriteRead ==
    \A k \in 1..Len(chars) :
        ("READ" \in chars[k].properties /\ chars[k].uuid = TIME_CHARACTERISTIC_UUID) =>
            LET ops == OpsOn(k)
            IN  /\ IsPrefix(ops, <<<<"read", 81>>, <<"write", 185>>, <<"read", 117>>>>)
                /\ Contiguous(k)
                /\ k > ci => ops = <<>>
                /\ (k <= ci /\ ~InBodyOf(k) /\ ~ReadAbortedOn(k)) => Len(ops) = 3

C16_Witness ==
    /\ Len(chars) = 2
    /\ chars[1] = [uuid |-> TIME_CHARACTERISTIC_UUID, properties |-> {"READ"}]
    /\ chars[2] = [uuid |-> TIME_CHARACTERISTIC_UUID, properties |-> {"READ", "WRITE"}]
    /\ Len(OpsOn(1)) = 3
    /\ Len(OpsOn(2)) = 3
    /\ pc = "disconnect"

\* C17: a write is issued for every discovered characteristic with the
\* time UUID that the loop of line 73 gets through, whatever its property
\* flags, and no read or write is issued for any other UUID.
C17_WriteWhateverTheFlags ==
    /\ \A i \in 1..Len(trace) :
          trace[i].op \in {"read", "write"} =>
             /\ trace[i].ch \in 1..Len(chars)
             /\ chars[trace[i].ch].uuid = TIME_CHARACTERISTIC_UUID
    /\ \A k \in 1..Len(chars) :
          chars[k].uuid = TIME_CHARACTERISTIC_UUID =>
             /\ (k <= ci /\ ~InBodyOf(k) /\ ~ReadAbortedOn(k)) =>
                   \E i \in 1..Len(trace) :
                      /\ trace[i].op = "write" /\ trace[i].ch = k
                      /\ \A j \in 1..Len(trace) :
                            (trace[j].op = "write" /\ trace[j].ch = k) => j = i
             /\ (k <= ci /\ "READ" \notin chars[k].properties) =>
                   \/ k = ci /\ pc = "write"
                   \/ \A i \in 1..Len(trace) :
                         trace[i].ch = k => trace[i].op = "write"

C17_Witness ==
    /\ Len(chars) = 2
    /\ chars[1] = [uuid |-> NOTIFY_CHARACTERISTIC_UUID, properties |-> {"READ", "WRITE"}]
    /\ chars[2] = [uuid |-> TIME_CHARACTERISTIC_UUID, properties |-> {}]
    /\ OpsOn(1) = <<>>
    /\ OpsOn(2) = <<<<"write", 185>>>>
    /\ pc = "disconnect"

\* the current peripheral matched and was connected when first inspected
AlreadyConnected == Matched /\ trace[2].val = <<1>>

\* C18: a matched peripheral that is already connected at line 46 gets no
\* connect request; its connection state is re-checked, and when the
\* re-check says connected it is discovered, time-synced and disconnected.
C18_AlreadyConnectedNoConnect ==
    AlreadyConnected =>
        /\ ~Issued("connect")
        /\ pc # "connect"
        /\ Len(trace) = 2 => pc = "recheck"
        /\ Len(trace) >= 3 => (trace[3].op = "is_connected" /\ trace[3].line = 65)
        /\ (Len(trace) >= 3 /\ trace[3] = Op("is_connected", 65, 0, TRUE, <<1>>)) =>
              /\ Len(trace) = 3 => pc = "discover_services"
              /\ Len(trace) >= 4 => trace[4].op = "discover_services"
              /\ (IterationOver /\ \A i \in 1..Len(trace) :
                                      trace[i].ok \/ trace[i].op = "write") =>
                    Last(trace) = Op("disconnect", 141, 0, TRUE, <<>>)

C18_Witness ==
    /\ AlreadyConnected
    /\ Issued("write")
    /\ Last(trace) = Op("disconnect", 141, 0, TRUE, <<>>)
    /\ pc = "done"
    /\ status = "ok"

\* C19: discovery is only issued right after the re-check of line 65
\* returned connected; when it returns not connected nothing more is issued
\* for the peripheral (no discovery, read, write or disconnect) and the run
\* moves on to the next peripheral without error.
C19_DiscoveryOnlyAfterRecheck ==
    /\ \A i \in 1..Len(trace) :
          trace[i].op = "discover_services" =>
             /\ i > 1
             /\ trace[i - 1] = Op("is_connected", 65, 0, TRUE, <<1>>)
    /\ pc = "discover_services" =>
          Last(trace) = Op("is_connected", 65, 0, TRUE, <<1>>)
    /\ \A j \in 1..Len(trace) :
          trace[j] = Op("is_connected", 65, 0, TRUE, <<0>>) =>
             /\ j = Len(trace)
             /\ ~InIteration
             /\ Aborted => cause \in {"start_scan", "peripherals"}

C19_Witness ==
    /\ Len(trace) = 4
    /\ trace[3] = Op("connect", 60, 0, TRUE, <<>>)
    /\ trace[4] = Op("is_connected", 65, 0, TRUE, <<0>>)
    /\ pc = "done"
    /\ status = "ok"

\* the current peripheral has properties and its advertised name does not
\* contain the filter (or it advertises no name)
Unmatched ==
    /\ properties.some
    /\ \/ ~properties.local_name.some
       \/ ~contains(properties.local_name.v, filter)

\* C20: every scan is started with the default (empty) ScanFilter, and for
\* a peripheral whose name does not contain the filter no connect,
\* re-check, discovery, read, write or disconnect is issued.
C20_UnmatchedUntouched ==
    /\ \A i \in 1..Len(scans) : scans[i].services = {}
    /\ Len(scans) = (IF pc = "start_scan" THEN ai - 1 ELSE ai)
    /\ Unmatched =>
          /\ Len(trace) <= 2
          /\ \A i \in 1..Len(trace) : trace[i].line \in {45, 46}
          /\ pc \notin {"connect", "recheck", "discover_services",
                        "for_characteristic", "read_before", "write",
                        "read_after", "disconnect"}
          /\ ~SessionOpen

C20_Witness ==
    /\ Unmatched
    /\ properties.local_name.some
    /\ Len(trace) = 2
    /\ trace[2] = Op("is_connected", 46, 0, TRUE, <<1>>)
    /\ Len(scans) = 2
    /\ pc = "done"
    /\ status = "ok"

====
